---- MODULE Spec2Model ----
(***************************************************************************)
(* The session registry of poll_audience (src/src/main.rs): the actix     *)
(* handlers page_for_session, set_page, reset, respond, responses and     *)
(* stats, and the background task periodically_clear_old_sessions, all    *)
(* working on one Mutex<Sessions>.                                        *)
(*                                                                         *)
(* A handler is a sequence of steps: the validation that precedes the     *)
(* lock, the acquisition of the mutex, the statements of the critical     *)
(* section, and the return, which drops the guard.  Handlers of different *)
(* requests interleave between steps.                                     *)
(***************************************************************************)
EXTENDS Integers, Sequences, FiniteSets, TLC

VARIABLES
    state_by_id,   \* Sessions.state_by_id : SessionID -> SessionState
    lock,          \* the holder of AppState.sessions (a Mutex), or NoTask
    pc,            \* pc[t]: where client task t is in its handler
    req,           \* req[t]: the request client task t is handling
    sweep_pc,      \* where periodically_clear_old_sessions is in its loop
    todo,          \* the entries HashMap::retain has still to visit
    now,           \* the wall clock read by Utc::now(), in seconds
    last,          \* the handler return made by the latest step, if it made one
    last_set,      \* history: last_set[s] is the body of the latest set_page on s that returned Ok
    stamp,         \* history: stamp[t] is the time task t read in its critical section
    seq_reg,       \* history: the registry kept by applying each operation in one step
    poisoned,      \* the poison flag of the Mutex: a task panicked while it held the guard
    tie            \* history: tie[t] tells whether the page that the respond of task t was sent for is still the page of its session

vars == <<state_by_id, lock, pc, req, sweep_pc, todo, now, last, last_set, stamp, seq_reg,
          poisoned, tie>>

---------------------------------------------------------------------------
(* Program constants *)

MaxSessionIDLen == 100
MaxUserIDLen == 100
MaxPageLen == 1000000
SessionLifeTime == 86400
PayloadLimit == 1048576

(* Bounds of the model *)

\* The latest reading of the clock.
MaxNow == 86401

---------------------------------------------------------------------------
(* Tasks and inputs *)

Clients == {"c1", "c2"}
SweepTask == "sweep"
NoTask == "none"

Pad10 == "0123456789"
Pad90 == Pad10 \o Pad10 \o Pad10 \o Pad10 \o Pad10 \o Pad10 \o Pad10 \o Pad10 \o Pad10
Pad99 == Pad90 \o "012345678"

\* Path segments for {session_id}, of length 0, 1, 100 and 101.
NoSession == ""
S1 == "s"
S100 == "s" \o Pad99
S101 == "s" \o Pad99 \o "9"
SessionPaths == {NoSession, S1, S100, S101}

\* Path segments for {user_id}, of length 0, 1, 100 and 101.
NoUser == ""
U1 == "u"
U100 == "u" \o Pad99
U101 == "u" \o Pad99 \o "9"
UserPaths == {NoUser, U1, U100, U101}

\* A request body: its text is named, not spelled out, and len is its
\* length in bytes (String::len).
Blob(text, len) == [text |-> text, len |-> len]
EmptyString == Blob("", 0)
MaxBody == Blob("max", MaxPageLen)
OverBody == Blob("over", MaxPageLen + 1)
HugeBody == Blob("huge", PayloadLimit + 1)
Bodies == {EmptyString, MaxBody, OverBody, HugeBody}

\* The readings of the clock after the first.
Times == {SessionLifeTime, MaxNow}

---------------------------------------------------------------------------
(* AppError and handler results *)

AppError == {"EmptySessionID", "TooLongSessionID", "SessionIDDoesNotExist",
             "ServerError", "EmptyUserID", "TooLongUserID", "PageTooLarge"}

\* AppError::status_code
status_code(e) ==
    CASE e = "EmptySessionID" -> 400
      [] e = "TooLongSessionID" -> 400
      [] e = "SessionIDDoesNotExist" -> 400
      [] e = "ServerError" -> 500
      [] e = "EmptyUserID" -> 400
      [] e = "TooLongUserID" -> 400
      [] e = "PageTooLarge" -> 413

EmptyMap == [u \in {} |-> EmptyString]

\* What a handler returned: Ok with the response's payload, or Err(e).
\* body is the text of a page_for_session response, map the JSON object of a
\* responses response, num the num_sessions of a stats response.
NoRet == [status |-> "none", error |-> "none", body |-> EmptyString, map |-> EmptyMap, num |-> 0]
Ok == [NoRet EXCEPT !.status = "Ok"]
OkBody(b) == [Ok EXCEPT !.body = b]
OkMap(m) == [Ok EXCEPT !.map = m]
OkNum(n) == [Ok EXCEPT !.num = n]
Err(e) == [NoRet EXCEPT !.status = "Err", !.error = e]

NoReq == [op |-> "none", session_id |-> "", user_id |-> "", body |-> EmptyString]
Request(op, s, u, b) == [op |-> op, session_id |-> s, user_id |-> u, body |-> b]

---------------------------------------------------------------------------
(* SessionID::from_string and UserID::from_string *)

\* Mutant: the comparison is >=.
SessionID_from_string_off_by_one(s) ==
    IF Len(s) = 0 THEN Err("EmptySessionID")
    ELSE IF Len(s) >= MaxSessionIDLen THEN Err("TooLongSessionID")
    ELSE Ok

SessionID_from_string(s) ==
    IF Len(s) = 0 THEN Err("EmptySessionID")
    ELSE IF Len(s) > MaxSessionIDLen THEN Err("TooLongSessionID")
    ELSE Ok

UserID_from_string(s) ==
    IF Len(s) = 0 THEN Err("EmptyUserID")
    ELSE IF Len(s) > MaxUserIDLen THEN Err("TooLongUserID")
    ELSE Ok

---------------------------------------------------------------------------
(* HashMap operations on Sessions.state_by_id and response_by_user *)

SessionState(page, responses, time) ==
    [page_content |-> page, response_by_user |-> responses, last_update |-> time]

NoSessions == [s \in {} |-> SessionState(EmptyString, EmptyMap, 0)]

\* HashMap::insert: the value replaces the one stored under the key, if any.
Insert(m, k, v) == [x \in DOMAIN m \cup {k} |-> IF x = k THEN v ELSE m[x]]

\* HashMap::remove
Remove(m, k) == [x \in DOMAIN m \ {k} |-> m[x]]

\* Entry::or_insert_with
OrInsert(m, k, v) == IF k \in DOMAIN m THEN m ELSE Insert(m, k, v)

\* An assignment through the &mut SessionState a handler holds for key k.
SetField(m, k, f, v) ==
    IF k \in DOMAIN m THEN [m EXCEPT ![k] = [@ EXCEPT ![f] = v]] ELSE m

---------------------------------------------------------------------------
(* The registry that applies each operation in one step (spec.md 4.1).    *)
(* It is kept beside the program's state as a history variable, seq_reg,  *)
(* and is never read by the program.                                      *)

Seq_result(reg, q) ==
    LET s == q.session_id
    IN  CASE q.op = "page_for_session" ->
                 IF s \in DOMAIN reg THEN OkBody(reg[s].page_content)
                 ELSE Err("SessionIDDoesNotExist")
          [] q.op = "responses" ->
                 IF s \in DOMAIN reg THEN OkMap(reg[s].response_by_user)
                 ELSE Err("SessionIDDoesNotExist")
          [] q.op = "respond" ->
                 IF s \in DOMAIN reg THEN Ok ELSE Err("SessionIDDoesNotExist")
          [] q.op = "stats" -> OkNum(Cardinality(DOMAIN reg))
          [] OTHER -> Ok

Seq_apply(reg, q, time) ==
    LET s == q.session_id
    IN  CASE q.op = "set_page" -> Insert(reg, s, SessionState(q.body, EmptyMap, time))
          [] q.op = "reset" /\ s \in DOMAIN reg ->
                 [reg EXCEPT ![s].response_by_user = EmptyMap]
          [] q.op = "respond" /\ s \in DOMAIN reg ->
                 [reg EXCEPT ![s].response_by_user = Insert(@, q.user_id, q.body),
                             ![s].last_update = time]
          [] OTHER -> reg

Seq_expire(reg, k, time) ==
    IF k \in DOMAIN reg /\ reg[k].last_update + SessionLifeTime < time
    THEN Remove(reg, k) ELSE reg

\* The history variable tie: "current" for a respond sent while its session
\* had a page, which is the page its client can have read; "replaced" once a
\* set_page on the session has returned since; "nothing" otherwise.

\* The return a step made: the task, its request, what the handler returned
\* and what the one-step registry returns for the request.
NoEvent == [task |-> NoTask, req |-> NoReq, ret |-> NoRet, seq_ret |-> NoRet]
Event(t, q, r, sr) == [task |-> t, req |-> q, ret |-> r, seq_ret |-> sr]

NeverSet == Blob("never set", 0)

---------------------------------------------------------------------------
(* The state after main has built AppState and spawned the sweep task *)

Init ==
    /\ state_by_id = NoSessions
    /\ lock = NoTask
    /\ pc = [t \in Clients |-> "idle"]
    /\ req = [t \in Clients |-> NoReq]
    /\ sweep_pc = "tick"
    /\ todo = {}
    /\ now = 0
    /\ last = NoEvent
    /\ last_set = [s \in SessionPaths |-> NeverSet]
    /\ stamp = [t \in Clients |-> 0]
    /\ seq_reg = NoSessions
    /\ poisoned = FALSE
    /\ tie = [t \in Clients |-> "nothing"]

---------------------------------------------------------------------------
(* Steps shared by the handlers *)

\* A handler returns r before it has locked the mutex.
Reject(t, r, q) ==
    /\ last' = Event(t, q, r, r)
    /\ UNCHANGED <<state_by_id, lock, pc, req, sweep_pc, todo, now, last_set, stamp, seq_reg,
                 poisoned, tie>>

\* A handler has validated its arguments and goes on to lock the mutex.
Accept(t, q) ==
    /\ req' = [req EXCEPT ![t] = q]
    /\ pc' = [pc EXCEPT ![t] = "lock"]
    /\ last' = NoEvent
    /\ tie' = [tie EXCEPT ![t] = IF q.op = "respond" /\ q.session_id \in DOMAIN seq_reg
                                  THEN "current" ELSE "nothing"]
    /\ UNCHANGED <<state_by_id, lock, sweep_pc, todo, now, last_set, stamp, seq_reg, poisoned>>

\* The first statement of each handler's critical section.
FirstStep(op) ==
    CASE op = "page_for_session" -> "get"
      [] op = "set_page" -> "entry"
      [] op = "reset" -> "match"
      [] op = "respond" -> "get_mut"
      [] op = "responses" -> "get"
      [] op = "stats" -> "len"

\* Mutant: the lock is taken without waiting for its holder to drop it.
lock_sessions_no_wait(t) ==
    /\ pc[t] = "lock"
    /\ lock' = t
    /\ pc' = [pc EXCEPT ![t] = FirstStep(req[t].op)]
    /\ last' = NoEvent
    /\ UNCHANGED <<state_by_id, req, sweep_pc, todo, now, last_set, stamp, seq_reg, poisoned, tie>>

\* state.sessions.lock() returns Ok(guard): it blocks while another task
\* holds the mutex, and gives Err when the mutex is poisoned.
lock_sessions(t) ==
    /\ pc[t] = "lock"
    /\ lock = NoTask
    /\ ~poisoned
    /\ lock' = t
    /\ pc' = [pc EXCEPT ![t] = FirstStep(req[t].op)]
    /\ last' = NoEvent
    /\ UNCHANGED <<state_by_id, req, sweep_pc, todo, now, last_set, stamp, seq_reg, poisoned, tie>>

\* The handler returns r; the MutexGuard is dropped.
Return(t, r) ==
    /\ pc' = [pc EXCEPT ![t] = "idle"]
    /\ req' = [req EXCEPT ![t] = NoReq]
    /\ lock' = IF lock = t THEN NoTask ELSE lock
    /\ last' = Event(t, req[t], r, Seq_result(seq_reg, req[t]))
    /\ seq_reg' = Seq_apply(seq_reg, req[t], stamp[t])
    /\ last_set' = IF req[t].op = "set_page" /\ r.status = "Ok"
                   THEN [last_set EXCEPT ![req[t].session_id] = req[t].body]
                   ELSE last_set
    /\ stamp' = [stamp EXCEPT ![t] = 0]
    /\ tie' = [o \in Clients |->
                   IF o = t THEN "nothing"
                   ELSE IF /\ req[t].op = "set_page"
                           /\ tie[o] = "current"
                           /\ req[o].session_id = req[t].session_id
                        THEN "replaced"
                        ELSE tie[o]]
    /\ UNCHANGED <<state_by_id, sweep_pc, todo, now, poisoned>>

\* A statement of the critical section, which writes registry m and leads
\* to the step `next`.
Statement(t, m, next) ==
    /\ state_by_id' = m
    /\ pc' = [pc EXCEPT ![t] = next]
    /\ last' = NoEvent
    /\ UNCHANGED <<lock, req, sweep_pc, todo, now, last_set, seq_reg, poisoned, tie>>

AtStep(t, op, step) == pc[t] = step /\ req[t].op = op

\* The String extractor configured by PayloadConfig::new(1 * 1024 * 1024)
\* refuses a body above the limit, and the handler of the route is not called.
payload_overflow(t, body) ==
    /\ pc[t] = "idle"
    /\ body.len > PayloadLimit
    /\ Reject(t, Err("Overflow"), Request("extract", "", "", body))

---------------------------------------------------------------------------
(* page_for_session: GET /s/{session_id} *)

page_for_session_start(t, path) ==
    /\ pc[t] = "idle"
    /\ LET q == Request("page_for_session", path, "", EmptyString)
           v == SessionID_from_string(path)
       IN  IF v.status = "Err" THEN Reject(t, v, q) ELSE Accept(t, q)

\* Mutant: the read sets last_update.
page_for_session_get_touch(t) ==
    /\ AtStep(t, "page_for_session", "get")
    /\ state_by_id' = SetField(state_by_id, req[t].session_id, "last_update", now)
    /\ pc' = [pc EXCEPT ![t] = "idle"]
    /\ req' = [req EXCEPT ![t] = NoReq]
    /\ lock' = NoTask
    /\ last' = Event(t, req[t], Seq_result(state_by_id, req[t]), Seq_result(seq_reg, req[t]))
    /\ UNCHANGED <<sweep_pc, todo, now, last_set, stamp, seq_reg, poisoned, tie>>

page_for_session_get(t) ==
    /\ AtStep(t, "page_for_session", "get")
    /\ LET s == req[t].session_id
       IN  IF s \in DOMAIN state_by_id
           THEN Return(t, OkBody(state_by_id[s].page_content))
           ELSE Return(t, Err("SessionIDDoesNotExist"))

---------------------------------------------------------------------------
(* set_page: POST /s/{session_id}/set_page *)

set_page_start(t, path, body) ==
    /\ pc[t] = "idle"
    /\ body.len <= PayloadLimit
    /\ LET q == Request("set_page", path, "", body)
           v == SessionID_from_string(path)
       IN  IF body.len > MaxPageLen THEN Reject(t, Err("PageTooLarge"), q)
           ELSE IF v.status = "Err" THEN Reject(t, v, q)
           ELSE Accept(t, q)

set_page_entry(t) ==
    /\ AtStep(t, "set_page", "entry")
    /\ Statement(t, OrInsert(state_by_id, req[t].session_id,
                             SessionState(EmptyString, EmptyMap, now)),
                 "last_update")
    /\ UNCHANGED stamp

set_page_last_update(t) ==
    /\ AtStep(t, "set_page", "last_update")
    /\ Statement(t, SetField(state_by_id, req[t].session_id, "last_update", now),
                 "page_content")
    /\ stamp' = [stamp EXCEPT ![t] = now]

\* Mutant: the body is not stored.
set_page_page_content_dropped(t) ==
    /\ AtStep(t, "set_page", "page_content")
    /\ Statement(t, state_by_id, "clear")
    /\ UNCHANGED stamp

set_page_page_content(t) ==
    /\ AtStep(t, "set_page", "page_content")
    /\ Statement(t, SetField(state_by_id, req[t].session_id, "page_content", req[t].body),
                 "clear")
    /\ UNCHANGED stamp

\* Mutant: the responses are not cleared.
set_page_clear_skipped(t) ==
    /\ AtStep(t, "set_page", "clear")
    /\ Statement(t, state_by_id, "return")
    /\ UNCHANGED stamp

set_page_clear(t) ==
    /\ AtStep(t, "set_page", "clear")
    /\ Statement(t, SetField(state_by_id, req[t].session_id, "response_by_user", EmptyMap),
                 "return")
    /\ UNCHANGED stamp

\* Mutant: the guard is leaked (mem::forget) and the mutex stays locked.
set_page_return_leaks_guard(t) ==
    /\ AtStep(t, "set_page", "return")
    /\ pc' = [pc EXCEPT ![t] = "idle"]
    /\ req' = [req EXCEPT ![t] = NoReq]
    /\ last' = Event(t, req[t], Ok, Ok)
    /\ seq_reg' = Seq_apply(seq_reg, req[t], stamp[t])
    /\ last_set' = [last_set EXCEPT ![req[t].session_id] = req[t].body]
    /\ stamp' = [stamp EXCEPT ![t] = 0]
    /\ UNCHANGED <<state_by_id, lock, sweep_pc, todo, now, poisoned, tie>>

set_page_return(t) ==
    /\ AtStep(t, "set_page", "return")
    /\ Return(t, Ok)

---------------------------------------------------------------------------
(* reset: POST /s/{session_id}/reset_responses *)

reset_start(t, path) ==
    /\ pc[t] = "idle"
    /\ LET q == Request("reset", path, "", EmptyString)
           v == SessionID_from_string(path)
       IN  IF v.status = "Err" THEN Reject(t, v, q) ELSE Accept(t, q)

\* Mutant: reset also sets last_update.
reset_responses_touch(m, s) ==
    SetField(SetField(m, s, "response_by_user", EmptyMap), s, "last_update", now)

\* Mutant: entry().or_insert_with() in place of get_mut().
reset_responses_or_insert(m, s) ==
    SetField(OrInsert(m, s, SessionState(EmptyString, EmptyMap, now)),
             s, "response_by_user", EmptyMap)

\* Mutant: one response is removed, not all.
reset_responses_drop_one(m, s) ==
    IF s \in DOMAIN m /\ m[s].response_by_user # EmptyMap
    THEN SetField(m, s, "response_by_user",
                  Remove(m[s].response_by_user,
                         CHOOSE u \in DOMAIN m[s].response_by_user : TRUE))
    ELSE m

\* The match on state_by_id.get_mut(&session_id).
reset_responses(m, s) == SetField(m, s, "response_by_user", EmptyMap)

reset_match(t) ==
    /\ AtStep(t, "reset", "match")
    /\ Statement(t, reset_responses(state_by_id, req[t].session_id), "return")
    /\ UNCHANGED stamp

reset_return(t) ==
    /\ AtStep(t, "reset", "return")
    /\ Return(t, Ok)

---------------------------------------------------------------------------
(* respond: POST /s/{session_id}/respond/{user_id} *)

\* Mutant: the user identifier is not validated before the lock.
respond_start_unchecked_user(t, spath, upath, body) ==
    /\ pc[t] = "idle"
    /\ body.len <= PayloadLimit
    /\ LET q == Request("respond", spath, upath, body)
           v == SessionID_from_string(spath)
       IN  IF v.status = "Err" THEN Reject(t, v, q) ELSE Accept(t, q)

respond_start(t, spath, upath, body) ==
    /\ pc[t] = "idle"
    /\ body.len <= PayloadLimit
    /\ LET q == Request("respond", spath, upath, body)
           v == SessionID_from_string(spath)
           w == UserID_from_string(upath)
       IN  IF v.status = "Err" THEN Reject(t, v, q)
           ELSE IF w.status = "Err" THEN Reject(t, w, q)
           ELSE Accept(t, q)

\* Mutant: entry().or_insert_with() in place of get_mut().
respond_get_mut_or_insert(t) ==
    /\ AtStep(t, "respond", "get_mut")
    /\ Statement(t, OrInsert(state_by_id, req[t].session_id,
                             SessionState(EmptyString, EmptyMap, now)),
                 "insert")
    /\ UNCHANGED stamp

respond_get_mut(t) ==
    /\ AtStep(t, "respond", "get_mut")
    /\ IF req[t].session_id \in DOMAIN state_by_id
       THEN Statement(t, state_by_id, "insert") /\ UNCHANGED stamp
       ELSE Return(t, Err("SessionIDDoesNotExist"))

\* Mutant: entry(user_id).or_insert(body), which keeps the body stored first.
insert_response_keep_first(m, s, u, b) ==
    IF s \in DOMAIN m
    THEN SetField(m, s, "response_by_user", OrInsert(m[s].response_by_user, u, b))
    ELSE m

\* Mutant: the map is replaced by one that holds the new body only.
insert_response_alone(m, s, u, b) ==
    IF s \in DOMAIN m
    THEN SetField(m, s, "response_by_user", Insert(EmptyMap, u, b))
    ELSE m

\* session.response_by_user.insert(user_id, body)
insert_response(m, s, u, b) ==
    IF s \in DOMAIN m
    THEN SetField(m, s, "response_by_user", Insert(m[s].response_by_user, u, b))
    ELSE m

respond_insert(t) ==
    /\ AtStep(t, "respond", "insert")
    /\ Statement(t, insert_response(state_by_id, req[t].session_id, req[t].user_id, req[t].body),
                 "last_update")
    /\ UNCHANGED stamp

\* Mutant: respond does not set last_update.
respond_last_update_skipped(t) ==
    /\ AtStep(t, "respond", "last_update")
    /\ Statement(t, state_by_id, "return")
    /\ stamp' = [stamp EXCEPT ![t] = now]

respond_last_update(t) ==
    /\ AtStep(t, "respond", "last_update")
    /\ Statement(t, SetField(state_by_id, req[t].session_id, "last_update", now), "return")
    /\ stamp' = [stamp EXCEPT ![t] = now]

respond_return(t) ==
    /\ AtStep(t, "respond", "return")
    /\ Return(t, Ok)

---------------------------------------------------------------------------
(* responses: GET /s/{session_id}/responses *)

responses_start(t, path) ==
    /\ pc[t] = "idle"
    /\ LET q == Request("responses", path, "", EmptyString)
           v == SessionID_from_string(path)
       IN  IF v.status = "Err" THEN Reject(t, v, q) ELSE Accept(t, q)

responses_get(t) ==
    /\ AtStep(t, "responses", "get")
    /\ LET s == req[t].session_id
       IN  IF s \in DOMAIN state_by_id
           THEN Return(t, OkMap(state_by_id[s].response_by_user))
           ELSE Return(t, Err("SessionIDDoesNotExist"))

---------------------------------------------------------------------------
(* stats: GET /stats *)

stats_start(t) ==
    /\ pc[t] = "idle"
    /\ Accept(t, Request("stats", "", "", EmptyString))

stats_len(t) ==
    /\ AtStep(t, "stats", "len")
    /\ Return(t, OkNum(Cardinality(DOMAIN state_by_id)))

---------------------------------------------------------------------------
(* periodically_clear_old_sessions *)

\* interval.tick().await completes.
sweep_tick ==
    /\ sweep_pc = "tick"
    /\ sweep_pc' = "lock"
    /\ last' = NoEvent
    /\ UNCHANGED <<state_by_id, lock, pc, req, todo, now, last_set, stamp, seq_reg, poisoned, tie>>

\* state.sessions.lock().unwrap(), then retain starts on the entries of the map.
sweep_lock ==
    /\ sweep_pc = "lock"
    /\ lock = NoTask
    /\ ~poisoned
    /\ lock' = SweepTask
    /\ sweep_pc' = "retain"
    /\ todo' = DOMAIN state_by_id
    /\ last' = NoEvent
    /\ UNCHANGED <<state_by_id, pc, req, now, last_set, stamp, seq_reg, poisoned, tie>>

\* Mutant: the comparison is >=.
is_old_not_strict(session, current_time) ==
    current_time >= session.last_update + SessionLifeTime

\* The closure of retain for one session.
is_old(session, current_time) == current_time > session.last_update + SessionLifeTime

\* retain visits entry k (in the HashMap's order, which is any order).
sweep_retain(k) ==
    /\ sweep_pc = "retain"
    /\ k \in todo
    /\ todo' = todo \ {k}
    /\ state_by_id' =
           IF k \in DOMAIN state_by_id /\ is_old(state_by_id[k], now)
           THEN Remove(state_by_id, k)
           ELSE state_by_id
    /\ seq_reg' = Seq_expire(seq_reg, k, now)
    /\ last' = NoEvent
    /\ UNCHANGED <<lock, pc, req, sweep_pc, now, last_set, stamp, poisoned, tie>>

\* Mutant: the guard outlives the loop body.
sweep_unlock_keeps_guard ==
    /\ sweep_pc = "retain"
    /\ todo = {}
    /\ sweep_pc' = "tick"
    /\ last' = NoEvent
    /\ UNCHANGED <<state_by_id, lock, pc, req, todo, now, last_set, stamp, seq_reg, poisoned, tie>>

\* retain is done; the guard is dropped at the end of the loop body.
sweep_unlock ==
    /\ sweep_pc = "retain"
    /\ todo = {}
    /\ lock' = IF lock = SweepTask THEN NoTask ELSE lock
    /\ sweep_pc' = "tick"
    /\ last' = NoEvent
    /\ UNCHANGED <<state_by_id, pc, req, todo, now, last_set, stamp, seq_reg, poisoned, tie>>

---------------------------------------------------------------------------
(* The wall clock: Utc::now() reads `time` from now on. *)

clock_advance(time) ==
    /\ time > now
    /\ now' = time
    /\ last' = NoEvent
    /\ UNCHANGED <<state_by_id, lock, pc, req, sweep_pc, todo, last_set, stamp, seq_reg, poisoned, tie>>

---------------------------------------------------------------------------
(* Panics.  The one call in a critical section that can panic is          *)
(* Utc::now(), which panics when the system clock is before the Unix      *)
(* epoch.  A task that panics while it holds the MutexGuard drops the     *)
(* guard in unwinding, which poisons the mutex; from then on lock()       *)
(* returns Err to every task.                                             *)

Panicked == [NoRet EXCEPT !.status = "panic"]

\* Task t is at a statement of its critical section that calls Utc::now():
\* the closure of or_insert_with (run for a vacant entry only) and the two
\* assignments to last_update.
calls_utc_now(t) ==
    CASE AtStep(t, "set_page", "entry") -> req[t].session_id \notin DOMAIN state_by_id
      [] AtStep(t, "set_page", "last_update") -> TRUE
      [] AtStep(t, "respond", "last_update") -> TRUE
      [] OTHER -> FALSE

\* Utc::now() panics in the handler of task t: no response is sent.
utc_now_panics(t) ==
    /\ calls_utc_now(t)
    /\ poisoned' = TRUE
    /\ lock' = NoTask
    /\ pc' = [pc EXCEPT ![t] = "idle"]
    /\ req' = [req EXCEPT ![t] = NoReq]
    /\ last' = Event(t, req[t], Panicked, Panicked)
    /\ stamp' = [stamp EXCEPT ![t] = 0]
    /\ tie' = [tie EXCEPT ![t] = "nothing"]
    /\ UNCHANGED <<state_by_id, sweep_pc, todo, now, last_set, seq_reg>>

\* Utc::now() panics in the closure of retain: the sweep task ends.
sweep_retain_panics ==
    /\ sweep_pc = "retain"
    /\ todo # {}
    /\ sweep_pc' = "panicked"
    /\ todo' = {}
    /\ poisoned' = TRUE
    /\ lock' = NoTask
    /\ last' = NoEvent
    /\ UNCHANGED <<state_by_id, pc, req, now, last_set, stamp, seq_reg, tie>>

\* Mutant: the guard is taken out of the PoisonError and the handler goes on.
lock_sessions_into_inner(t) ==
    /\ pc[t] = "lock"
    /\ lock = NoTask
    /\ poisoned
    /\ lock' = t
    /\ pc' = [pc EXCEPT ![t] = FirstStep(req[t].op)]
    /\ last' = NoEvent
    /\ UNCHANGED <<state_by_id, req, sweep_pc, todo, now, last_set, stamp, seq_reg, poisoned, tie>>

\* state.sessions.lock() returns Err(PoisonError): map_err drops the guard
\* it carries and ? returns AppError::ServerError.
lock_sessions_poisoned(t) ==
    /\ pc[t] = "lock"
    /\ lock = NoTask
    /\ poisoned
    /\ pc' = [pc EXCEPT ![t] = "idle"]
    /\ req' = [req EXCEPT ![t] = NoReq]
    /\ last' = Event(t, req[t], Err("ServerError"), Err("ServerError"))
    /\ tie' = [tie EXCEPT ![t] = "nothing"]
    /\ UNCHANGED <<state_by_id, lock, sweep_pc, todo, now, last_set, stamp, seq_reg, poisoned>>

\* state.sessions.lock().unwrap() on a poisoned mutex panics: the task
\* spawned by tokio::spawn ends, and nothing restarts it.
sweep_lock_poisoned ==
    /\ sweep_pc = "lock"
    /\ lock = NoTask
    /\ poisoned
    /\ sweep_pc' = "panicked"
    /\ last' = NoEvent
    /\ UNCHANGED <<state_by_id, lock, pc, req, todo, now, last_set, stamp, seq_reg, poisoned, tie>>

---------------------------------------------------------------------------
(* The next-state relation, for the requests a load `in` lets its clients  *)
(* send: in.clients send requests with paths from in.sessions and         *)
(* in.users, set_page bodies from in.pages and respond bodies from        *)
(* in.answers.                                                            *)

Load(clients, sessions, users, pages, answers) ==
    [clients |-> clients, sessions |-> sessions, users |-> users,
     pages |-> pages, answers |-> answers]

Step(in) ==
    \/ \E t \in in.clients, path \in in.sessions : page_for_session_start(t, path)
    \/ \E t \in Clients : page_for_session_get(t)
    \/ \E t \in in.clients, path \in in.sessions, body \in in.pages : set_page_start(t, path, body)
    \/ \E t \in Clients : set_page_entry(t)
    \/ \E t \in Clients : set_page_last_update(t)
    \/ \E t \in Clients : set_page_page_content(t)
    \/ \E t \in Clients : set_page_clear(t)
    \/ \E t \in Clients : set_page_return(t)
    \/ \E t \in in.clients, path \in in.sessions : reset_start(t, path)
    \/ \E t \in Clients : reset_match(t)
    \/ \E t \in Clients : reset_return(t)
    \/ \E t \in in.clients, spath \in in.sessions, upath \in in.users, body \in in.answers :
           respond_start(t, spath, upath, body)
    \/ \E t \in Clients : respond_get_mut(t)
    \/ \E t \in Clients : respond_insert(t)
    \/ \E t \in Clients : respond_last_update(t)
    \/ \E t \in Clients : respond_return(t)
    \/ \E t \in in.clients, path \in in.sessions : responses_start(t, path)
    \/ \E t \in Clients : responses_get(t)
    \/ \E t \in in.clients : stats_start(t)
    \/ \E t \in Clients : stats_len(t)
    \/ \E t \in Clients : lock_sessions(t)
    \/ sweep_tick
    \/ sweep_lock
    \/ \E k \in SessionPaths : sweep_retain(k)
    \/ sweep_unlock
    \/ \E time \in Times : clock_advance(time)

\* Two clients at work on one session, with two users.
Concurrent == Load(Clients, {S1}, {U1, U100}, {EmptyString, MaxBody}, {EmptyString, MaxBody})

Next == Step(Concurrent)

Spec == Init /\ [][Next]_vars

\* One client at work on two sessions.
TwoSessions == Load({"c1"}, {S1, S100}, {U1}, {EmptyString, MaxBody}, {MaxBody})

NextSessions == Step(TwoSessions)

SpecSessions == Init /\ [][NextSessions]_vars

\* One client sending identifiers of length 0, 1, 100 and 101 and bodies of
\* MaxPageLen, MaxPageLen + 1 and PayloadLimit + 1 bytes.
Boundary == Load({"c1"}, SessionPaths, UserPaths, {MaxBody, OverBody}, {OverBody})

NextBoundary ==
    \/ Step(Boundary)
    \/ \E t \in Boundary.clients : payload_overflow(t, HugeBody)

SpecBoundary == Init /\ [][NextBoundary]_vars

\* Two clients at work on one session, on a machine whose clock can be
\* before the Unix epoch.
Faulty == Load(Clients, {S1}, {U1}, {MaxBody}, {MaxBody})

NextFaults ==
    \/ Step(Faulty)
    \/ \E t \in Clients : utc_now_panics(t)
    \/ sweep_retain_panics
    \/ \E t \in Clients : lock_sessions_poisoned(t)
    \/ sweep_lock_poisoned

SpecFaults == Init /\ [][NextFaults]_vars

\* The steps of task t inside its critical section.
critical_section(t) ==
    \/ page_for_session_get(t)
    \/ set_page_entry(t)
    \/ set_page_last_update(t)
    \/ set_page_page_content(t)
    \/ set_page_clear(t)
    \/ set_page_return(t)
    \/ reset_match(t)
    \/ reset_return(t)
    \/ respond_get_mut(t)
    \/ respond_insert(t)
    \/ respond_last_update(t)
    \/ respond_return(t)
    \/ responses_get(t)
    \/ stats_len(t)

\* Scheduling: a task that can run a statement of its critical section or of
\* the sweep runs it; the interval ticks; and the mutex is handed over
\* fairly, so a task that finds the mutex free again and again gets it.
Fairness ==
    /\ \A t \in Clients : WF_vars(critical_section(t))
    /\ \A t \in Clients : SF_vars(lock_sessions(t))
    /\ WF_vars(sweep_tick)
    /\ SF_vars(sweep_lock)
    /\ WF_vars(\E k \in SessionPaths : sweep_retain(k))
    /\ WF_vars(sweep_unlock)

\* Two clients at work on one session, under fair scheduling.
Contending == Load(Clients, {S1}, {U1}, {MaxBody}, {MaxBody})

NextFair == Step(Contending)

SpecFair == Init /\ [][NextFair]_vars /\ Fairness

---------------------------------------------------------------------------
(* Vocabulary of the properties *)

ValidationErrors == {"EmptySessionID", "TooLongSessionID", "EmptyUserID",
                     "TooLongUserID", "PageTooLarge"}

\* Task t executes the statement `step` of handler `op` in this step.
Executes(t, op, step) == AtStep(t, op, step) /\ pc'[t] # pc[t]

\* Steps of set_page after the entry has been taken.
SetPageSteps == {"last_update", "page_content", "clear", "return"}

\* Steps at which a task holds the MutexGuard.
GuardedSteps == {"get", "entry", "last_update", "page_content", "clear", "return",
                 "match", "get_mut", "insert", "len"}

Responses(m, s) == m[s].response_by_user

---------------------------------------------------------------------------
(* C1: page_for_session on an existing session returns the body of the    *)
(* latest set_page on that session that returned Ok, and whenever no task *)
(* is inside a critical section every session's page is that body:        *)
(* nothing but set_page on s changes the page of s.                       *)

C1_PageIsLastSetPage ==
    /\ (last.req.op = "page_for_session" /\ last.req.session_id \in DOMAIN state_by_id)
           => last.ret = OkBody(last_set[last.req.session_id])
    /\ lock = NoTask =>
           \A s \in DOMAIN state_by_id : state_by_id[s].page_content = last_set[s]

\* c1 has just read MaxBody from S1 after a respond on S1, while S100 holds
\* another page.
C1_Witness ==
    /\ last.req.op = "page_for_session"
    /\ last.req.session_id = S1
    /\ last.ret = OkBody(MaxBody)
    /\ Responses(state_by_id, S1) # EmptyMap
    /\ S100 \in DOMAIN state_by_id
    /\ state_by_id[S100].page_content = EmptyString
    /\ last_set[S100] = EmptyString

---------------------------------------------------------------------------
(* C2: set_page is atomic: while a set_page is between taking the entry   *)
(* and returning, it holds the mutex and no other task is inside a        *)
(* critical section, so none reads the session half-updated; and when it  *)
(* returns, the session holds the new page, no responses, and the time    *)
(* set_page read.                                                         *)

C2_SetPageAtomic ==
    \A t \in Clients :
        (req[t].op = "set_page" /\ pc[t] \in SetPageSteps) =>
            /\ lock = t
            /\ \A o \in Clients \ {t} : pc[o] \notin GuardedSteps
            /\ sweep_pc # "retain"
            /\ pc[t] = "return" =>
                   /\ req[t].session_id \in DOMAIN state_by_id
                   /\ state_by_id[req[t].session_id] =
                          SessionState(req[t].body, EmptyMap, stamp[t])

\* A set_page on a session with responses is about to return, and the other
\* client is waiting for the mutex to read the responses.
C2_Witness ==
    \E t \in Clients, o \in Clients :
        /\ AtStep(t, "set_page", "return")
        /\ req[t].body = MaxBody
        /\ S1 \in DOMAIN seq_reg
        /\ Responses(seq_reg, S1) # EmptyMap
        /\ Responses(state_by_id, S1) = EmptyMap
        /\ pc[o] = "lock"
        /\ req[o].op = "responses"

---------------------------------------------------------------------------
(* C3: respond on a session that does not exist returns                   *)
(* SessionIDDoesNotExist and leaves the registry as it was.               *)

C3_RespondNeverCreates ==
    [][\A t \in Clients :
          (Executes(t, "respond", "get_mut") /\ req[t].session_id \notin DOMAIN state_by_id)
              => /\ last'.task = t
                 /\ last'.ret = Err("SessionIDDoesNotExist")
                 /\ state_by_id' = state_by_id]_vars

\* respond on S1, which does not exist, has returned the error; S100 exists.
C3_Witness ==
    /\ last.req.op = "respond"
    /\ last.req.session_id = S1
    /\ last.ret = Err("SessionIDDoesNotExist")
    /\ DOMAIN state_by_id = {S100}

---------------------------------------------------------------------------
(* C4: the insert of respond is last-write-wins: after it the map holds    *)
(* the body under the user (one entry, the key of a map), whatever it held *)
(* before, and the entries of the other users are as they were; this is    *)
(* the map when respond returns.                                          *)

C4_LastWriteWins ==
    /\ [](\A t \in Clients :
              AtStep(t, "respond", "return") =>
                  /\ req[t].session_id \in DOMAIN state_by_id
                  /\ req[t].user_id \in DOMAIN Responses(state_by_id, req[t].session_id)
                  /\ Responses(state_by_id, req[t].session_id)[req[t].user_id] = req[t].body)
    /\ [][\A t \in Clients :
              Executes(t, "respond", "insert") =>
                  LET s == req[t].session_id
                      u == req[t].user_id
                      old == Responses(state_by_id, s)
                      new == Responses(state_by_id', s)
                  IN  /\ DOMAIN new = DOMAIN old \cup {u}
                      /\ new[u] = req[t].body
                      /\ \A x \in DOMAIN old \ {u} : new[x] = old[x]]_vars

\* A respond has replaced the body U1 had stored (EmptyString) by MaxBody,
\* and U100's entry is still there.
C4_Witness ==
    \E t \in Clients :
        /\ AtStep(t, "respond", "return")
        /\ req[t].user_id = U1
        /\ req[t].body = MaxBody
        /\ S1 \in DOMAIN seq_reg
        /\ DOMAIN Responses(seq_reg, S1) = {U1, U100}
        /\ Responses(seq_reg, S1)[U1] = EmptyString
        /\ DOMAIN Responses(state_by_id, S1) = {U1, U100}

---------------------------------------------------------------------------
(* C5: two responds of different users on one session commute and both    *)
(* persist: for two responds in flight on an existing session, inserting  *)
(* in either order gives the same map, which holds both bodies; and the   *)
(* insert of one respond keeps every other user's entry.                  *)

C5_RespondsCommute ==
    /\ [](\A t1 \in Clients, t2 \in Clients :
              ( /\ t1 # t2
                /\ req[t1].op = "respond" /\ req[t2].op = "respond"
                /\ pc[t1] = "lock" /\ pc[t2] = "lock"
                /\ req[t1].session_id = req[t2].session_id
                /\ req[t1].session_id \in DOMAIN state_by_id
                /\ req[t1].user_id # req[t2].user_id ) =>
                  LET s == req[t1].session_id
                      a == insert_response(
                               insert_response(state_by_id, s, req[t1].user_id, req[t1].body),
                               s, req[t2].user_id, req[t2].body)
                      b == insert_response(
                               insert_response(state_by_id, s, req[t2].user_id, req[t2].body),
                               s, req[t1].user_id, req[t1].body)
                  IN  /\ a = b
                      /\ {req[t1].user_id, req[t2].user_id} \subseteq DOMAIN Responses(a, s)
                      /\ Responses(a, s)[req[t1].user_id] = req[t1].body
                      /\ Responses(a, s)[req[t2].user_id] = req[t2].body)
    /\ [][\A t \in Clients :
              Executes(t, "respond", "insert") =>
                  \A x \in DOMAIN Responses(state_by_id, req[t].session_id) \ {req[t].user_id} :
                      /\ x \in DOMAIN Responses(state_by_id', req[t].session_id)
                      /\ Responses(state_by_id', req[t].session_id)[x] =
                             Responses(state_by_id, req[t].session_id)[x]]_vars

\* A respond of U100 has inserted its body into a map that held U1's body
\* only, and the map holds both.
C5_Witness ==
    \E t \in Clients :
        /\ AtStep(t, "respond", "return")
        /\ req[t].user_id = U100
        /\ req[t].body = EmptyString
        /\ S1 \in DOMAIN seq_reg
        /\ Responses(seq_reg, S1) = Insert(EmptyMap, U1, MaxBody)
        /\ Responses(state_by_id, S1) = Insert(Insert(EmptyMap, U1, MaxBody), U100, EmptyString)

---------------------------------------------------------------------------
(* C6: the handlers and the sweep, interleaved statement by statement,    *)
(* behave as the registry that applies each operation in one step, in the *)
(* order in which the mutex is released (which is the order in which it   *)
(* is acquired): every return is the return of that registry, and         *)
(* whenever the mutex is free the two registries are equal.               *)

C6_Linearizable ==
    /\ last.ret = last.seq_ret
    /\ lock = NoTask => state_by_id = seq_reg

\* A responses request has returned two responses while the other client
\* waits for the mutex with a set_page.
C6_Witness ==
    \E o \in Clients :
        /\ lock = NoTask
        /\ last.req.op = "responses"
        /\ last.task # o
        /\ DOMAIN last.ret.map = {U1, U100}
        /\ pc[o] = "lock"
        /\ req[o].op = "set_page"

---------------------------------------------------------------------------
(* C7: the match of reset on an existing session empties its responses    *)
(* and leaves its page, its last_update and every other session as they   *)
(* were.                                                                  *)

C7_ResetClearsResponsesOnly ==
    [][\A t \in Clients :
          (Executes(t, "reset", "match") /\ req[t].session_id \in DOMAIN state_by_id) =>
              LET s == req[t].session_id
              IN  /\ DOMAIN state_by_id' = DOMAIN state_by_id
                  /\ state_by_id'[s] = SessionState(state_by_id[s].page_content, EmptyMap,
                                                    state_by_id[s].last_update)
                  /\ \A k \in DOMAIN state_by_id \ {s} : state_by_id'[k] = state_by_id[k]]_vars

\* reset has emptied the responses of S1, whose page was set before the
\* clock advanced; S100 still has its responses.
C7_Witness ==
    \E t \in Clients :
        /\ AtStep(t, "reset", "return")
        /\ req[t].session_id = S1
        /\ S1 \in DOMAIN seq_reg
        /\ Responses(seq_reg, S1) # EmptyMap
        /\ Responses(state_by_id, S1) = EmptyMap
        /\ state_by_id[S1].page_content = MaxBody
        /\ state_by_id[S1].last_update < now
        /\ S100 \in DOMAIN state_by_id
        /\ Responses(state_by_id, S100) # EmptyMap

---------------------------------------------------------------------------
(* C8, as claimed: reset returns Ok for every session ID it is called     *)
(* with.                                                                  *)

C8_ResetAlwaysOk == last.req.op = "reset" => last.ret = Ok

(* C8, amended: reset returns Ok exactly for the session IDs of length 1  *)
(* to 100, EmptySessionID for the empty one and TooLongSessionID for a    *)
(* longer one; on a session that does not exist its match leaves the      *)
(* registry as it was.                                                    *)

C8_ResetOkForValidID ==
    /\ [](last.req.op = "reset" =>
              last.ret = IF Len(last.req.session_id) = 0 THEN Err("EmptySessionID")
                         ELSE IF Len(last.req.session_id) > 100 THEN Err("TooLongSessionID")
                         ELSE Ok)
    /\ [][\A t \in Clients :
              (Executes(t, "reset", "match") /\ req[t].session_id \notin DOMAIN state_by_id)
                  => state_by_id' = state_by_id]_vars

\* reset on S100, which does not exist, has returned Ok; S1 exists.
C8_Witness ==
    /\ last.req.op = "reset"
    /\ last.req.session_id = S100
    /\ last.ret = Ok
    /\ DOMAIN state_by_id = {S1}

---------------------------------------------------------------------------
(* C9: reset is idempotent: on every reachable registry and every session *)
(* ID, the match of reset applied twice gives what it gives applied once, *)
(* and when a reset returns, another reset would change nothing.          *)

C9_ResetIdempotent ==
    /\ \A s \in SessionPaths :
           reset_responses(reset_responses(state_by_id, s), s) = reset_responses(state_by_id, s)
    /\ \A t \in Clients :
           AtStep(t, "reset", "return") =>
               reset_responses(state_by_id, req[t].session_id) = state_by_id

\* reset has emptied a map of two responses.
C9_Witness ==
    \E t \in Clients :
        /\ AtStep(t, "reset", "return")
        /\ S1 \in DOMAIN seq_reg
        /\ DOMAIN Responses(seq_reg, S1) = {U1, U100}
        /\ Responses(state_by_id, S1) = EmptyMap

---------------------------------------------------------------------------
(* C10: in page_for_session, set_page, reset, respond and responses an    *)
(* empty identifier and one of more than 100 bytes are rejected with a    *)
(* validation error, one of 1 to 100 bytes is not, and every session key  *)
(* and user key of the registry has 1 to 100 bytes.                       *)

C10_IdentifierBoundary ==
    /\ \A s \in DOMAIN state_by_id :
           /\ Len(s) \in 1..100
           /\ \A u \in DOMAIN Responses(state_by_id, s) : Len(u) \in 1..100
    /\ last.req.op \in {"page_for_session", "set_page", "reset", "respond", "responses"} =>
           LET q == last.req
               badS == Len(q.session_id) = 0 \/ Len(q.session_id) >= 101
               badU == q.op = "respond" /\ (Len(q.user_id) = 0 \/ Len(q.user_id) >= 101)
               bigPage == q.op = "set_page" /\ q.body.len > 1000000
           IN  /\ (badS \/ badU) =>
                      (last.ret.status = "Err" /\ last.ret.error \in ValidationErrors)
               /\ (~badS /\ ~badU /\ ~bigPage) => last.ret.error \notin ValidationErrors

\* The registry holds the session and the user of 100 bytes, and a request
\* for the session ID of 101 bytes has been rejected.
C10_Witness ==
    /\ S100 \in DOMAIN state_by_id
    /\ U100 \in DOMAIN Responses(state_by_id, S100)
    /\ last.req.session_id = S101
    /\ last.ret = Err("TooLongSessionID")

---------------------------------------------------------------------------
(* C11: a set_page or respond request whose body is longer than           *)
(* 1,000,000 bytes is rejected, and so no page content and no response    *)
(* body kept in the registry is longer than 1,000,000 bytes.              *)

C11_BodyLimit ==
    /\ last.req.body.len > MaxPageLen => last.ret.status = "Err"
    /\ \A s \in DOMAIN state_by_id :
           /\ state_by_id[s].page_content.len <= MaxPageLen
           /\ \A u \in DOMAIN Responses(state_by_id, s) :
                  Responses(state_by_id, s)[u].len <= MaxPageLen

---------------------------------------------------------------------------
(* C12: when the sweep visits a session it removes it exactly if          *)
(* last_update + SessionLifeTime < now, now being the clock reading made  *)
(* for that session (with last_update + SessionLifeTime = now it stays),  *)
(* and the step changes no other session and no field of a session that   *)
(* stays.  A session that is absent, so one the sweep removed, gives      *)
(* SessionIDDoesNotExist to page_for_session and responses and is not     *)
(* counted by stats.                                                      *)

\* The session the sweep visits in this step.
Visited == CHOOSE k \in todo : k \notin todo'

C12_AbsentIsNotFound ==
    /\ ( /\ last.req.op \in {"page_for_session", "responses"}
         /\ SessionID_from_string(last.req.session_id).status = "Ok"
         /\ last.req.session_id \notin DOMAIN state_by_id )
       => last.ret = Err("SessionIDDoesNotExist")
    /\ last.req.op = "stats" => last.ret = OkNum(Cardinality(DOMAIN state_by_id))

C12_VisitRemovesOld ==
    (sweep_pc = "retain" /\ todo' # todo) =>
        /\ DOMAIN state_by_id' \subseteq DOMAIN state_by_id
        /\ \A k \in DOMAIN state_by_id :
               /\ k \notin DOMAIN state_by_id' <=>
                      /\ k = Visited
                      /\ state_by_id[k].last_update + SessionLifeTime < now
               /\ k \in DOMAIN state_by_id' => state_by_id'[k] = state_by_id[k]

---------------------------------------------------------------------------
(* C13: no step of page_for_session, responses or stats, whether the      *)
(* handler returns Ok or an error, changes the registry: a read creates   *)
(* no session and sets no last_update.  A session comes into the registry *)
(* only by the entry statement of a set_page on its identifier, so every  *)
(* session present has had a set_page return Ok or is inside one.         *)

Reads == {"page_for_session", "responses", "stats"}

C13_CreatedBySetPage ==
    \A s \in DOMAIN state_by_id :
        \/ last_set[s] # NeverSet
        \/ \E t \in Clients :
               req[t].op = "set_page" /\ req[t].session_id = s /\ pc[t] \in SetPageSteps

C13_ReadStepsKeepRegistry ==
    /\ \A t \in Clients :
           (pc'[t] # pc[t] /\ (req[t].op \in Reads \/ req'[t].op \in Reads))
               => state_by_id' = state_by_id
    /\ (last' # NoEvent /\ last'.req.op \in Reads) => state_by_id' = state_by_id
    /\ \A s \in DOMAIN state_by_id' \ DOMAIN state_by_id :
           \E t \in Clients : Executes(t, "set_page", "entry") /\ req[t].session_id = s

C13_ReadsAreFrameFree == []C13_CreatedBySetPage /\ [][C13_ReadStepsKeepRegistry]_vars

\* page_for_session has returned the page of a session whose last_update is
\* in the past, and the other session has not been created.
C13_Witness ==
    /\ last.req.op = "page_for_session"
    /\ last.req.session_id = S1
    /\ last.ret = OkBody(MaxBody)
    /\ state_by_id[S1].last_update < now
    /\ S100 \notin DOMAIN state_by_id

---------------------------------------------------------------------------
(* C14: the task that holds the mutex is the one task that is inside a    *)
(* critical section, so at most one task holds it; a handler that has     *)
(* returned, with Ok or with an error, does not hold it; and the sweep    *)
(* does not hold it while it waits for its tick or for the lock.          *)

\* The tasks that are at a step at which they hold the MutexGuard.
Holders ==
    {t \in Clients : pc[t] \in GuardedSteps}
        \cup (IF sweep_pc = "retain" THEN {SweepTask} ELSE {})

C14_LockDiscipline ==
    /\ Cardinality(Holders) <= 1
    /\ \A t \in Holders : lock = t
    /\ lock # NoTask => lock \in Holders
    /\ \A t \in Clients : pc[t] \in {"idle", "lock"} => lock # t
    /\ last # NoEvent => lock # last.task /\ pc[last.task] = "idle"
    /\ sweep_pc \in {"tick", "lock"} => lock # SweepTask

\* A respond has returned SessionIDDoesNotExist from inside its critical
\* section while the other client and the sweep wait for the mutex.
C14_Witness ==
    /\ last.req.op = "respond"
    /\ last.ret = Err("SessionIDDoesNotExist")
    /\ lock = NoTask
    /\ \E o \in Clients \ {last.task} : pc[o] = "lock"
    /\ sweep_pc = "lock"

---------------------------------------------------------------------------
(* C15: a handler whose lock() finds the mutex poisoned returns           *)
(* ServerError and leaves the registry as it was; once the mutex is       *)
(* poisoned no handler is inside a critical section, so none reads or     *)
(* writes the registry.  ServerError is returned for a poisoned mutex     *)
(* only, its status is 5xx, and the status of every other AppError is 4xx.*)

C15_ServerErrorIsPoison ==
    /\ \A e \in AppError :
           IF e = "ServerError" THEN status_code(e) \in 500..599
           ELSE status_code(e) \in 400..499
    /\ last.ret.status = "Err" => last.ret.error \in AppError
    /\ last.ret.error = "ServerError" => poisoned
    /\ poisoned => \A t \in Clients : pc[t] \in {"idle", "lock"}

C15_PoisonedLockReturns ==
    \A t \in Clients :
        (pc[t] = "lock" /\ poisoned /\ pc'[t] # pc[t]) =>
            /\ last' = Event(t, req[t], Err("ServerError"), Err("ServerError"))
            /\ pc'[t] = "idle"
            /\ state_by_id' = state_by_id
            /\ lock' = lock

C15_PoisonedLockIsServerError ==
    []C15_ServerErrorIsPoison /\ [][C15_PoisonedLockReturns]_vars

\* A respond on an existing session has returned ServerError, and its body
\* is not in the registry.
C15_Witness ==
    /\ last.req.op = "respond"
    /\ last.ret = Err("ServerError")
    /\ status_code(last.ret.error) = 500
    /\ S1 \in DOMAIN state_by_id
    /\ Responses(state_by_id, S1) = EmptyMap

---------------------------------------------------------------------------
(* C16: the sweep task never ends: every lock acquisition, also one that  *)
(* finds the mutex poisoned, takes it into retain, and after retain it    *)
(* waits for the next tick.                                               *)

C16_LockTakesSweepOn ==
    /\ sweep_pc = "lock" => sweep_pc' \in {"lock", "retain"}
    /\ (sweep_pc = "retain" /\ todo = {}) => sweep_pc' \in {"retain", "tick"}

C16_SweepNeverEnds == [][C16_LockTakesSweepOn]_vars

---------------------------------------------------------------------------
(* C17: the responses of a session hold no response of an earlier round:  *)
(* a respond sent while the session had page content c1 does not put its  *)
(* body among the responses once a set_page on the session has replaced   *)
(* c1, also when the respond takes the lock after that set_page.          *)

C17_NoStaleResponse ==
    \A t \in Clients :
        (tie[t] = "replaced" /\ pc[t] \in {"last_update", "return"}) =>
            \/ req[t].session_id \notin DOMAIN state_by_id
            \/ req[t].user_id \notin DOMAIN Responses(state_by_id, req[t].session_id)

---------------------------------------------------------------------------
(* C18: a handler that returns a validation error (an empty or too long   *)
(* session or user identifier, a page above 1,000,000 bytes) returns it   *)
(* from its first step, before lock(): the step changes neither the       *)
(* registry nor the mutex, and a task that waits for the mutex or holds   *)
(* it has a valid request.  respond validates both identifiers before it  *)
(* looks the session up, so with an invalid identifier it returns the     *)
(* validation error also when the session does not exist.                 *)

ValidRequest(q) ==
    /\ q.op # "stats" => SessionID_from_string(q.session_id).status = "Ok"
    /\ q.op = "respond" => UserID_from_string(q.user_id).status = "Ok"
    /\ q.op = "set_page" => q.body.len <= MaxPageLen

C18_ValidBeforeLock ==
    /\ \A t \in Clients : pc[t] # "idle" => ValidRequest(req[t])
    /\ (last # NoEvent /\ last.req.op # "extract") =>
           (last.ret.error \in ValidationErrors <=> ~ValidRequest(last.req))
    /\ last.ret.error = "SessionIDDoesNotExist" => ValidRequest(last.req)

C18_ValidationStep ==
    (last' # NoEvent /\ last'.ret.error \in ValidationErrors) =>
        /\ pc[last'.task] = "idle"
        /\ UNCHANGED <<state_by_id, lock, pc, req, seq_reg>>

C18_ValidationBeforeRegistry == []C18_ValidBeforeLock /\ [][C18_ValidationStep]_vars

\* respond with a valid identifier of a session that does not exist and a
\* user identifier of 101 bytes has returned TooLongUserID.
C18_Witness ==
    /\ last.req.op = "respond"
    /\ last.req.session_id = S100
    /\ last.req.user_id = U101
    /\ last.ret = Err("TooLongUserID")
    /\ S100 \notin DOMAIN state_by_id
    /\ S1 \in DOMAIN state_by_id
    /\ lock = NoTask

---------------------------------------------------------------------------
(* C19: under fair scheduling of the tasks and fair hand-over of the      *)
(* mutex, every handler that waits for the mutex gets it and returns,     *)
(* which drops it, and every sweep that waits for the mutex gets it, ends *)
(* and waits for its next tick: the sweep and the handlers neither        *)
(* deadlock nor keep each other from the mutex for ever.                  *)

C19_EveryOperationCompletes ==
    /\ \A t \in Clients : (pc[t] = "lock") ~> (pc[t] = "idle" /\ lock # t)
    /\ (sweep_pc = "lock") ~> (sweep_pc = "tick" /\ lock # SweepTask)

\* The sweep is in retain with the mutex while both clients wait for it.
C19_Witness ==
    /\ sweep_pc = "retain"
    /\ lock = SweepTask
    /\ todo # {}
    /\ \A t \in Clients : pc[t] = "lock"

---------------------------------------------------------------------------
(* C20: a session whose last_update is more than SessionLifeTime in the   *)
(* past stays in the registry until the sweep visits it: until then       *)
(* page_for_session and responses return it, stats counts it, and respond *)
(* and set_page on it return Ok and set last_update to the clock reading, *)
(* after which a sweep at that reading keeps it.  No step of reset or of  *)
(* a read changes a last_update, so these do not keep the session from    *)
(* the next sweep.                                                        *)

\* Session s is in the registry although its life time has passed.
Overdue(m, s) == s \in DOMAIN m /\ is_old(m[s], now)

C20_OverdueIsServed ==
    /\ \A s \in DOMAIN state_by_id :
           (Overdue(state_by_id, s) /\ last.req.session_id = s) =>
               /\ last.req.op = "page_for_session" =>
                      last.ret = OkBody(state_by_id[s].page_content)
               /\ last.req.op = "responses" =>
                      last.ret = OkMap(Responses(state_by_id, s))
    /\ last.req.op = "stats" =>
           last.ret.num >= Cardinality({s \in DOMAIN state_by_id : Overdue(state_by_id, s)})
    /\ \A t \in Clients :
           (pc[t] = "return" /\ req[t].op \in {"respond", "set_page"}) =>
               /\ req[t].session_id \in DOMAIN state_by_id
               /\ state_by_id[req[t].session_id].last_update = stamp[t]
               /\ ~is_old(state_by_id[req[t].session_id], stamp[t])

C20_OnlyWritesRefresh ==
    \A t \in Clients :
        /\ (Executes(t, "respond", "last_update") \/ Executes(t, "set_page", "last_update")) =>
               /\ state_by_id'[req[t].session_id].last_update = now
               /\ stamp'[t] = now
        /\ (pc'[t] # pc[t] /\ req[t].op \in Reads \cup {"reset"}) =>
               \A s \in DOMAIN state_by_id :
                   /\ s \in DOMAIN state_by_id'
                   /\ state_by_id'[s].last_update = state_by_id[s].last_update
                   /\ Overdue(state_by_id, s) => Overdue(state_by_id', s)

C20_ExpiryOnlyBySweep == []C20_OverdueIsServed /\ [][C20_OnlyWritesRefresh]_vars

\* respond is about to return Ok on a session that was overdue when it took
\* the mutex and is no longer, while the other session is still overdue.
C20_Witness ==
    /\ AtStep("c1", "respond", "return")
    /\ req["c1"].session_id = S1
    /\ Overdue(seq_reg, S1)
    /\ ~Overdue(state_by_id, S1)
    /\ state_by_id[S1].last_update = now
    /\ Overdue(state_by_id, S100)

====
